---- MODULE Spec2Model ----
(***************************************************************************)
(* A model of app.py: the knowledge-base chatbot.                          *)
(*                                                                         *)
(* Text is a sequence of one-character strings.  A JSON / Python value is  *)
(* a record tagged by its type:                                            *)
(*   [t |-> "str",  s |-> Text]                                            *)
(*   [t |-> "num",  n |-> Nat]                                             *)
(*   [t |-> "list", a |-> sequence of values]                              *)
(*   [t |-> "dict", k |-> sequence of keys (Text), v |-> their values]     *)
(* A dict keeps its keys in insertion order, as Python's does.             *)
(*                                                                         *)
(* Scores are exact rationals [n |-> numerator, d |-> denominator > 0];    *)
(* the rounding of the 64-bit floats of the program is not modelled.       *)
(***************************************************************************)
EXTENDS Integers, Sequences, FiniteSets, TLC

VARIABLES
  KB,          \* the module-level list KB (app.py:121), a sequence of values
  DEFAULT_KB,  \* the module-level list DEFAULT_KB (app.py:14), mutable in Python
  kbIsDefault, \* TRUE when KB and DEFAULT_KB name the same list object
  file,        \* the file kb.json: [kind |-> "absent"|"locked"|"regular", data |-> Text]
  msg,         \* the message handled by the latest run of handle_message
  sent,        \* the cl.Message contents sent by that run, in order
  raised,      \* the exception that run ended with, "none" when it returned
  result,      \* what find_best_answer returned to that run, if it was called
  added,       \* number of entries appended by /add so far (bounds the model)
  saved,       \* history of the latest successful /save, <<>> when it is gone:
               \* <<[kb |-> the store written, adds |-> entries appended since,
               \*    loaded |-> a /load has followed]>>, kept while only /add
               \* messages and then one /load have followed the /save
  tasks,       \* the runs of handle_message in flight when messages are
               \* delivered concurrently: task |-> [pc, m, out]
  call         \* the latest direct call of a function: its name, arguments
               \* and value

vars == <<KB, DEFAULT_KB, kbIsDefault, file, msg, sent, raised, result, added,
          saved, tasks, call>>

-----------------------------------------------------------------------------
(* Bounds of the model *)

\* /add appends at most this many entries in one behaviour
MaxAdd == 2
\* a failed write leaves at most this many characters of the new text
MaxCut == 1
\* the stores the matcher is run on hold at most this many entries
MaxStore == 2
\* at most this many messages are delivered concurrently
MaxTasks == 2
\* the texts normalize is called on have at most this many characters
MaxText == 5
\* the texts score_match is called on have at most this many characters
MaxScored == 3

-----------------------------------------------------------------------------
(* Python str operations used by the program *)

\* str.isspace for the characters of the model
IsSpace(c) == c \in {" ", "\t", "\n", "\r"}

UpperChars == <<"A","B","C","D","E","F","G","H","I","J","K","L","M",
                "N","O","P","Q","R","S","T","U","V","W","X","Y","Z">>
LowerChars == <<"a","b","c","d","e","f","g","h","i","j","k","l","m",
                "n","o","p","q","r","s","t","u","v","w","x","y","z">>

UpperSet == {UpperChars[j] : j \in 1..26}
ToLower == [c \in UpperSet |-> LowerChars[CHOOSE j \in 1..26 : UpperChars[j] = c]]

\* str.lower
lower(s) ==
  [i \in 1..Len(s) |-> IF s[i] \in UpperSet THEN ToLower[s[i]] ELSE s[i]]

\* the first position from i upwards that holds no whitespace
RECURSIVE first_text(_, _)
first_text(s, i) ==
  IF i <= Len(s) /\ IsSpace(s[i]) THEN first_text(s, i + 1) ELSE i

\* the last position from i downwards that holds no whitespace
RECURSIVE last_text(_, _)
last_text(s, i) ==
  IF i >= 1 /\ IsSpace(s[i]) THEN last_text(s, i - 1) ELSE i

\* str.strip: drop leading and trailing whitespace
strip(s) == SubSeq(s, first_text(s, 1), last_text(s, Len(s)))

\* str.split(sep) for a one-character sep: every occurrence splits, empty
\* parts are kept
RECURSIVE split_at(_, _, _, _)
split_at(s, sep, i, cur) ==
  IF i > Len(s) THEN <<cur>>
  ELSE IF s[i] = sep THEN <<cur>> \o split_at(s, sep, i + 1, <<>>)
  ELSE split_at(s, sep, i + 1, Append(cur, s[i]))

split(s, sep) == split_at(s, sep, 1, <<>>)

\* the first position from i upwards that holds sep, Len(s) + 1 if none
RECURSIVE find_char(_, _, _)
find_char(s, sep, i) ==
  IF i <= Len(s) /\ s[i] # sep THEN find_char(s, sep, i + 1) ELSE i

\* str.split(sep, 1): split at the first occurrence only
split_once(s, sep) ==
  LET p == find_char(s, sep, 1)
  IN  IF p > Len(s) THEN <<s>>
      ELSE <<SubSeq(s, 1, p - 1), SubSeq(s, p + 1, Len(s))>>

\* str.split(): split on runs of whitespace, no empty parts
RECURSIVE split_ws_at(_, _, _)
split_ws_at(s, i, cur) ==
  IF i > Len(s) THEN (IF cur = <<>> THEN <<>> ELSE <<cur>>)
  ELSE IF IsSpace(s[i])
       THEN (IF cur = <<>> THEN <<>> ELSE <<cur>>) \o split_ws_at(s, i + 1, <<>>)
       ELSE split_ws_at(s, i + 1, Append(cur, s[i]))

split_ws(s) == split_ws_at(s, 1, <<>>)

\* sep.join(parts)
RECURSIVE join(_, _)
join(parts, sep) ==
  IF parts = <<>> THEN <<>>
  ELSE IF Len(parts) = 1 THEN parts[1]
  ELSE parts[1] \o sep \o join(Tail(parts), sep)

\* word in text: substring containment
contains(text, word) ==
  \E i \in 0..(Len(text) - Len(word)) :
     \A j \in 1..Len(word) : text[i + j] = word[j]

\* s.startswith(p)
startswith(s, p) ==
  Len(s) >= Len(p) /\ SubSeq(s, 1, Len(p)) = p

-----------------------------------------------------------------------------
(* Python / JSON values *)

JStr(s) == [t |-> "str", s |-> s]
JNum(n) == [t |-> "num", n |-> n]
JList(a) == [t |-> "list", a |-> a]
JDict(k, v) == [t |-> "dict", k |-> k, v |-> v]

\* the element of a one-element set; {F(x) : x \in {e}} computes e once
\* and names its value x
The(S) == CHOOSE x \in S : TRUE

\* key in d
dict_has(d, key) == \E i \in 1..Len(d.k) : d.k[i] = key
\* d[key], for a key that is present
dict_get(d, key) == d.v[CHOOSE i \in 1..Len(d.k) : d.k[i] = key]
\* d[key] = val: a present key keeps its place
dict_set(d, key, val) ==
  IF dict_has(d, key)
  THEN JDict(d.k, [i \in 1..Len(d.k) |-> IF d.k[i] = key THEN val ELSE d.v[i]])
  ELSE JDict(Append(d.k, key), Append(d.v, val))

\* bool(x) for the values of the model
truthy(x) ==
  CASE x.t = "str" -> x.s # <<>>
    [] x.t = "num" -> x.n # 0
    [] x.t = "list" -> x.a # <<>>
    [] x.t = "dict" -> x.k # <<>>

-----------------------------------------------------------------------------
(* json.dump(kb, f, indent=2, ensure_ascii=False) *)

\* the indent argument of json.dump
JSON_INDENT == 2

DigitChars == <<"0","1","2","3","4","5","6","7","8","9">>

\* the decimal digits of a natural number
RECURSIVE encode_int(_)
encode_int(n) ==
  IF n < 10 THEN <<DigitChars[n + 1]>>
  ELSE encode_int(n \div 10) \o <<DigitChars[(n % 10) + 1]>>

\* escape_char without the escape of the quote: a string holding a quote
\* ends early in the text written
escape_char_quote_raw(c) ==
  CASE c = "\\" -> <<"\\", "\\">>
    [] c = "\n" -> <<"\\", "n">>
    [] c = "\r" -> <<"\\", "r">>
    [] c = "\t" -> <<"\\", "t">>
    [] OTHER -> <<c>>

\* json's escape of one character of a string (ensure_ascii=False)
escape_char(c) ==
  CASE c = "\"" -> <<"\\", "\"">>
    [] c = "\\" -> <<"\\", "\\">>
    [] c = "\n" -> <<"\\", "n">>
    [] c = "\r" -> <<"\\", "r">>
    [] c = "\t" -> <<"\\", "t">>
    [] OTHER -> <<c>>

RECURSIVE escape_from(_, _)
escape_from(s, i) ==
  IF i > Len(s) THEN <<>> ELSE escape_char(s[i]) \o escape_from(s, i + 1)

\* a string as JSON text
encode_str(s) == <<"\"">> \o escape_from(s, 1) \o <<"\"">>

\* the line break and indentation json writes before an item at a level
newline_indent(level) == <<"\n">> \o [i \in 1..(JSON_INDENT * level) |-> " "]

RECURSIVE encode(_, _)
RECURSIVE encode_items(_, _, _)
RECURSIVE encode_members(_, _, _)

\* the items of a non-empty list from index i on, separated by "," and a
\* line break
encode_items(a, level, i) ==
  encode(a[i], level)
    \o (IF i = Len(a) THEN <<>>
        ELSE <<",">> \o newline_indent(level) \o encode_items(a, level, i + 1))

\* the "key": value members of a non-empty dict from index i on
encode_members(d, level, i) ==
  encode_str(d.k[i]) \o <<":", " ">> \o encode(d.v[i], level)
    \o (IF i = Len(d.k) THEN <<>>
        ELSE <<",">> \o newline_indent(level) \o encode_members(d, level, i + 1))

\* a value as JSON text, nested at the given level
encode(x, level) ==
  CASE x.t = "str" -> encode_str(x.s)
    [] x.t = "num" -> encode_int(x.n)
    [] x.t = "list" ->
         IF x.a = <<>> THEN <<"[", "]">>
         ELSE <<"[">> \o newline_indent(level + 1)
                \o encode_items(x.a, level + 1, 1)
                \o newline_indent(level) \o <<"]">>
    [] x.t = "dict" ->
         IF x.k = <<>> THEN <<"{", "}">>
         ELSE <<"{">> \o newline_indent(level + 1)
                \o encode_members(x, level + 1, 1)
                \o newline_indent(level) \o <<"}">>

\* the text json.dump writes for the list kb
json_dump(kb) == encode(JList(kb), 0)

-----------------------------------------------------------------------------
(* json.load(f): a parser of the text.  Each parse_ operator returns       *)
(* [ok, v, p]: whether it succeeded, the value, and the position after it. *)
(* The literals true, false and null, negative and fractional numbers and  *)
(* the escapes \b, \f and \uXXXX are outside the model: the parse fails.   *)

ParseFail == [ok |-> FALSE, v |-> JNum(0), p |-> 0]
ParseOk(v, p) == [ok |-> TRUE, v |-> v, p |-> p]

IsDigit(c) == \E i \in 1..10 : DigitChars[i] = c
DigitValue(c) == (CHOOSE i \in 1..10 : DigitChars[i] = c) - 1

\* the first position at or after p that holds no JSON whitespace
RECURSIVE skip_ws(_, _)
skip_ws(s, p) ==
  IF p <= Len(s) /\ IsSpace(s[p]) THEN skip_ws(s, p + 1) ELSE p

\* the character at p, "" past the end
char_at(s, p) == IF p <= Len(s) THEN s[p] ELSE ""

\* the inside of a string, from after its opening quote
RECURSIVE parse_string(_, _, _)
parse_string(s, p, acc) ==
  LET c == char_at(s, p) IN
  IF c = "" THEN ParseFail
  ELSE IF c = "\"" THEN ParseOk(JStr(acc), p + 1)
  ELSE IF c = "\\" THEN
    LET e == char_at(s, p + 1) IN
    CASE e = "\"" -> parse_string(s, p + 2, Append(acc, "\""))
      [] e = "\\" -> parse_string(s, p + 2, Append(acc, "\\"))
      [] e = "/" -> parse_string(s, p + 2, Append(acc, "/"))
      [] e = "n" -> parse_string(s, p + 2, Append(acc, "\n"))
      [] e = "r" -> parse_string(s, p + 2, Append(acc, "\r"))
      [] e = "t" -> parse_string(s, p + 2, Append(acc, "\t"))
      [] OTHER -> ParseFail
  ELSE IF c \in {"\n", "\r", "\t"} THEN ParseFail   \* strict: no control characters
  ELSE parse_string(s, p + 1, Append(acc, c))

\* the digits of a number after its first one
RECURSIVE parse_digits(_, _, _)
parse_digits(s, p, n) ==
  IF IsDigit(char_at(s, p))
  THEN parse_digits(s, p + 1, 10 * n + DigitValue(s[p]))
  ELSE ParseOk(JNum(n), p)

RECURSIVE parse_value(_, _)
RECURSIVE parse_items(_, _, _)
RECURSIVE parse_members(_, _, _)

\* the items of a non-empty array, p at the start of an item
parse_items(s, p, acc) ==
  LET r == parse_value(s, p) IN
  IF ~r.ok THEN ParseFail
  ELSE LET q == skip_ws(s, r.p)
           c == char_at(s, q)
       IN  IF c = "," THEN parse_items(s, skip_ws(s, q + 1), Append(acc, r.v))
           ELSE IF c = "]" THEN ParseOk(JList(Append(acc, r.v)), q + 1)
           ELSE ParseFail

\* the members of a non-empty object, p at the opening quote of a key; a
\* repeated key keeps its first place and takes the last value
parse_members(s, p, d) ==
  IF char_at(s, p) # "\"" THEN ParseFail
  ELSE
    LET key == parse_string(s, p + 1, <<>>) IN
    IF ~key.ok THEN ParseFail
    ELSE
      LET q == skip_ws(s, key.p) IN
      IF char_at(s, q) # ":" THEN ParseFail
      ELSE
        LET r == parse_value(s, skip_ws(s, q + 1)) IN
        IF ~r.ok THEN ParseFail
        ELSE LET q2 == skip_ws(s, r.p)
                 c == char_at(s, q2)
                 d2 == dict_set(d, key.v.s, r.v)
             IN  IF c = "," THEN parse_members(s, skip_ws(s, q2 + 1), d2)
                 ELSE IF c = "}" THEN ParseOk(d2, q2 + 1)
                 ELSE ParseFail

\* one value, p at its first character
parse_value(s, p) ==
  LET c == char_at(s, p) IN
  IF c = "\"" THEN parse_string(s, p + 1, <<>>)
  ELSE IF c = "[" THEN
    LET q == skip_ws(s, p + 1) IN
    IF char_at(s, q) = "]" THEN ParseOk(JList(<<>>), q + 1)
    ELSE parse_items(s, q, <<>>)
  ELSE IF c = "{" THEN
    LET q == skip_ws(s, p + 1) IN
    IF char_at(s, q) = "}" THEN ParseOk(JDict(<<>>, <<>>), q + 1)
    ELSE parse_members(s, q, JDict(<<>>, <<>>))
  ELSE IF c = "0" THEN ParseOk(JNum(0), p + 1)
  ELSE IF IsDigit(c) THEN parse_digits(s, p + 1, DigitValue(c))
  ELSE ParseFail

\* json.load: one value, then only whitespace up to the end of the text;
\* [ok |-> FALSE] stands for the JSONDecodeError
json_load(s) ==
  LET r == parse_value(s, skip_ws(s, 1)) IN
  IF r.ok /\ skip_ws(s, r.p) = Len(s) + 1 THEN r ELSE ParseFail

-----------------------------------------------------------------------------
(* Scores: exact rationals *)

Frac(n, d) == [n |-> n, d |-> d]
FracLess(x, y) == x.n * y.d < y.n * x.d
FracEq(x, y) == x.n * y.d = y.n * x.d
FracMul(x, y) == Frac(x.n * y.n, x.d * y.d)
\* Python's max(x, y): the first of the greatest
FracMax(x, y) == IF FracLess(x, y) THEN y ELSE x

\* 0.45, the fuzzy match threshold
MATCH_THRESHOLD == Frac(45, 100)
\* the weights 1.2, 0.9 and 1.0 of the question, answer and tag scores
WEIGHT_Q == Frac(12, 10)
WEIGHT_A == Frac(9, 10)
WEIGHT_T == Frac(10, 10)

-----------------------------------------------------------------------------
(* difflib.SequenceMatcher(None, a, b).ratio(), for texts shorter than the *)
(* 200 characters at which difflib starts to treat popular characters as   *)
(* junk.  Positions are Python's: a[i] of Python is a[i + 1] here.         *)

\* the length of the common run of a[i:ahi] and b[j:bhi]
RECURSIVE common_run(_, _, _, _, _, _)
common_run(a, b, i, j, ahi, bhi) ==
  IF i < ahi /\ j < bhi /\ a[i + 1] = b[j + 1]
  THEN 1 + common_run(a, b, i + 1, j + 1, ahi, bhi)
  ELSE 0

\* SequenceMatcher.find_longest_match: the longest block common to
\* a[alo:ahi] and b[blo:bhi]; of the longest, the one starting earliest in
\* a, and of those the one starting earliest in b.  [i, j, k], k = 0 if none.
find_longest_match(a, b, alo, ahi, blo, bhi) ==
  LET hits == {s \in (alo..(ahi - 1)) \X (blo..(bhi - 1)) :
                 a[s[1] + 1] = b[s[2] + 1]}
      len == [s \in hits |-> common_run(a, b, s[1], s[2], ahi, bhi)]
      k == CHOOSE n \in 1..(ahi - alo) :
             /\ \E s \in hits : len[s] = n
             /\ \A s \in hits : len[s] <= n
      longest == {s \in hits : len[s] = k}
      i == CHOOSE x \in {s[1] : s \in longest} :
             \A s \in longest : x <= s[1]
      j == CHOOSE y \in {s[2] : s \in {u \in longest : u[1] = i}} :
             \A s \in longest : s[1] = i => y <= s[2]
  IN  IF hits = {} THEN [i |-> alo, j |-> blo, k |-> 0]
      ELSE [i |-> i, j |-> j, k |-> k]

\* the total size of SequenceMatcher.get_matching_blocks: the longest block,
\* then the same to its left and to its right
RECURSIVE matching_total(_, _, _, _, _, _)
matching_total(a, b, alo, ahi, blo, bhi) ==
  IF alo >= ahi \/ blo >= bhi THEN 0
  ELSE LET m == find_longest_match(a, b, alo, ahi, blo, bhi)
       IN  IF m.k = 0 THEN 0
           ELSE m.k + matching_total(a, b, alo, m.i, blo, m.j)
                    + matching_total(a, b, m.i + m.k, ahi, m.j + m.k, bhi)

\* a ratio that gives 0.0 when there is nothing to compare
ratio_zero_when_empty(a, b) ==
  IF Len(a) + Len(b) = 0 THEN Frac(0, 1)
  ELSE Frac(2 * matching_total(a, b, 0, Len(a), 0, Len(b)), Len(a) + Len(b))

\* SequenceMatcher.ratio: 2.0 * matches / length, 1.0 when both are empty
ratio(a, b) ==
  IF Len(a) + Len(b) = 0 THEN Frac(1, 1)
  ELSE Frac(2 * matching_total(a, b, 0, Len(a), 0, Len(b)), Len(a) + Len(b))

-----------------------------------------------------------------------------
(* normalize, score_match, find_best_answer *)

\* s.replace("  ", " "): each pair of spaces, from the left, becomes one
RECURSIVE replace_pairs(_, _)
replace_pairs(s, i) ==
  IF i > Len(s) THEN <<>>
  ELSE IF i < Len(s) /\ s[i] = " " /\ s[i + 1] = " "
  THEN <<" ">> \o replace_pairs(s, i + 2)
  ELSE <<s[i]>> \o replace_pairs(s, i + 1)

\* normalize collapsing with replace("  ", " ") instead of split and join
normalize_replace_pairs(text) == replace_pairs(strip(lower(text)), 1)

normalize(text) == join(split_ws(strip(lower(text))), <<" ">>)

score_match(query, text) ==
  The({ratio(a, b) : a \in {normalize(query)}, b \in {normalize(text)}})

K_question == <<"q","u","e","s","t","i","o","n">>
K_answer == <<"a","n","s","w","e","r">>
K_tags == <<"t","a","g","s">>

\* the dict /add builds
Entry(q, a, tags) ==
  JDict(<<K_question, K_answer, K_tags>>,
        <<JStr(q), JStr(a), JList([i \in 1..Len(tags) |-> JStr(tags[i])])>>)

\* what iterating item["tags"] yields: the items of a list, the characters
\* of a str, the keys of a dict
tag_items(tags) ==
  CASE tags.t = "list" -> tags.a
    [] tags.t = "str" -> [i \in 1..Len(tags.s) |-> JStr(<<tags.s[i]>>)]
    [] tags.t = "dict" -> [i \in 1..Len(tags.k) |-> JStr(tags.k[i])]

\* the exception the scoring loop raises on an item, "none" if it scores it
score_error(item) ==
  IF item.t # "dict" THEN "TypeError"              \* item["question"]
  ELSE IF ~dict_has(item, K_question) THEN "KeyError"
  ELSE IF dict_get(item, K_question).t # "str" THEN "AttributeError"  \* text.lower()
  ELSE IF ~dict_has(item, K_answer) THEN "KeyError"
  ELSE IF dict_get(item, K_answer).t # "str" THEN "AttributeError"
  ELSE IF ~dict_has(item, K_tags) THEN "none"      \* item.get("tags") is None
  ELSE LET tags == dict_get(item, K_tags) IN
       IF ~truthy(tags) THEN "none"
       ELSE IF tags.t = "num" THEN "TypeError"     \* an int is not iterable
       ELSE IF \E i \in 1..Len(tag_items(tags)) : tag_items(tags)[i].t # "str"
            THEN "AttributeError"
       ELSE "none"

\* max((score_match(query_n, t) for t in tags), default=0.0) from index i
\* on, m the greatest so far; no score is below 0.0
RECURSIVE tag_max(_, _, _, _)
tag_max(ts, query_n, i, m) ==
  IF i > Len(ts) THEN m
  ELSE The({tag_max(ts, query_n, i + 1, FracMax(m, s)) :
              s \in {score_match(query_n, ts[i].s)}})

\* s_t: the greatest score of a tag, 0.0 when item.get("tags") is falsy
tag_score(item, query_n) ==
  IF dict_has(item, K_tags) /\ truthy(dict_get(item, K_tags))
  THEN tag_max(tag_items(dict_get(item, K_tags)), query_n, 1, Frac(0, 1))
  ELSE Frac(0, 1)

\* max(s_q * 1.2, s_a * 0.9, s_t * 1.0) of an item the loop can score
combined(item, query_n) ==
  The({FracMax(FracMax(FracMul(s_q, WEIGHT_Q), FracMul(s_a, WEIGHT_A)),
               FracMul(s_t, WEIGHT_T)) :
         s_q \in {score_match(query_n, dict_get(item, K_question).s)},
         s_a \in {score_match(query_n, dict_get(item, K_answer).s)},
         s_t \in {tag_score(item, query_n)}})

\* the first loop replacing the best item on an equal score too (>= for >)
RECURSIVE best_scan_last_wins(_, _, _, _, _)
best_scan_last_wins(kb, query_n, i, best, best_score) ==
  IF i > Len(kb) THEN [best |-> best, best_score |-> best_score]
  ELSE The({IF ~FracLess(c, best_score)
            THEN best_scan_last_wins(kb, query_n, i + 1, i, c)
            ELSE best_scan_last_wins(kb, query_n, i + 1, best, best_score) :
              c \in {combined(kb[i], query_n)}})

\* the first loop of find_best_answer from item i on: [best, best_score],
\* best the index in kb of the item kept, 0 for None
RECURSIVE best_scan(_, _, _, _, _)
best_scan(kb, query_n, i, best, best_score) ==
  IF i > Len(kb) THEN [best |-> best, best_score |-> best_score]
  ELSE The({IF FracLess(best_score, c)
            THEN best_scan(kb, query_n, i + 1, i, c)
            ELSE best_scan(kb, query_n, i + 1, best, best_score) :
              c \in {combined(kb[i], query_n)}})

\* the fallback comparing the words of the query with the words of the
\* question (word in qn.split())
keyword_hit_whole_words(item, query_n) ==
  LET qws == split_ws(normalize(dict_get(item, K_question).s))
      words == split_ws(query_n)
  IN  \E w \in 1..Len(words) : \E k \in 1..Len(qws) : words[w] = qws[k]

\* the fallback's test of an item: some word of the query is in its
\* normalized question
keyword_hit(item, query_n) ==
  LET qn == normalize(dict_get(item, K_question).s)
      words == split_ws(query_n)
  IN  \E w \in 1..Len(words) : words[w] # <<>> /\ contains(qn, words[w])

\* find_best_answer ending with "return None, 0.0"
answer_after_scan_zero(kb, query_n, b) ==
  LET hits == {i \in 1..Len(kb) : keyword_hit(kb[i], query_n)}
  IN  IF ~FracLess(b.best_score, MATCH_THRESHOLD)
      THEN [exc |-> "none", item |-> b.best, score |-> b.best_score]
      ELSE IF hits # {}
      THEN [exc |-> "none",
            item |-> CHOOSE i \in hits : \A j \in hits : i <= j,
            score |-> Frac(0, 1)]
      ELSE [exc |-> "none", item |-> 0, score |-> Frac(0, 1)]

\* what find_best_answer returns after its first loop ended with b =
\* [best, best_score]: the best item if it reaches the threshold, else the
\* first item with a keyword of the query, else None
answer_after_scan(kb, query_n, b) ==
  LET hits == {i \in 1..Len(kb) : keyword_hit(kb[i], query_n)}
  IN  IF ~FracLess(b.best_score, MATCH_THRESHOLD)
      THEN [exc |-> "none", item |-> b.best, score |-> b.best_score]
      ELSE IF hits # {}
      THEN [exc |-> "none",
            item |-> CHOOSE i \in hits : \A j \in hits : i <= j,
            score |-> Frac(0, 1)]
      ELSE [exc |-> "none", item |-> 0, score |-> b.best_score]

\* find_best_answer starting from best_score = -1.0
find_best_answer_from_minus_one(kb, query) ==
  LET bad == {i \in 1..Len(kb) : score_error(kb[i]) # "none"}
  IN  IF bad # {}
      THEN [exc |-> score_error(kb[CHOOSE i \in bad : \A j \in bad : i <= j]),
            item |-> 0, score |-> Frac(0, 1)]
      ELSE The({The({answer_after_scan(kb, query_n, b) :
                       b \in {best_scan(kb, query_n, 1, 0, Frac(-1, 1))}}) :
                  query_n \in {normalize(query)}})

\* find_best_answer(kb, query): [exc, item, score]; item is the index in kb
\* of the item returned, 0 for None; exc is the exception raised, or "none"
find_best_answer(kb, query) ==
  LET bad == {i \in 1..Len(kb) : score_error(kb[i]) # "none"}
  IN  IF bad # {}
      THEN [exc |-> score_error(kb[CHOOSE i \in bad : \A j \in bad : i <= j]),
            item |-> 0, score |-> Frac(0, 1)]
      ELSE The({The({answer_after_scan(kb, query_n, b) :
                       b \in {best_scan(kb, query_n, 1, 0, Frac(0, 1))}}) :
                  query_n \in {normalize(query)}})

-----------------------------------------------------------------------------
(* DEFAULT_KB: eight entries, in the order of the program.  Their texts    *)
(* stand for the program's: each question is cut to its subject, each      *)
(* answer to its first word and each tag list to one of its tags, which    *)
(* keeps the image of the store in kb.json small.                          *)

DefaultEntry1 == Entry(<<"P","y","t","h","o","n","?">>, <<"P","y","t","h","o","n">>,
                      <<<<"p","y","t","h","o","n">>>>)
DefaultEntry2 == Entry(<<"M","L","?">>, <<"S","t","a","r","t">>,
                      <<<<"m","l">>>>)
DefaultEntry3 == Entry(<<"G","i","t","?">>, <<"G","i","t">>,
                      <<<<"g","i","t">>>>)
DefaultEntry4 == Entry(<<"D","o","c","k","e","r","?">>, <<"D","o","c","k","e","r">>,
                      <<<<"d","o","c","k","e","r">>>>)
DefaultEntry5 == Entry(<<"M","o","d","e","l","?">>, <<"C","h","o","o","s","e">>,
                      <<<<"m","e","t","r","i","c","s">>>>)
DefaultEntry6 == Entry(<<"S","Q","L","?">>, <<"U","s","e">>,
                      <<<<"s","q","l">>>>)
DefaultEntry7 == Entry(<<"R","E","S","T","?">>, <<"R","E","S","T">>,
                      <<<<"r","e","s","t">>>>)
DefaultEntry8 == Entry(<<"T","e","s","t","?">>, <<"W","r","i","t","e">>,
                      <<<<"t","e","s","t","i","n","g">>>>)

DefaultKb ==
  <<DefaultEntry1, DefaultEntry2, DefaultEntry3, DefaultEntry4,
    DefaultEntry5, DefaultEntry6, DefaultEntry7, DefaultEntry8>>

-----------------------------------------------------------------------------
(* load_kb and save_kb *)

\* load_kb returning DEFAULT_KB itself instead of DEFAULT_KB.copy()
load_kb_no_copy(f, defaults) ==
  IF f.kind = "absent" THEN [kb |-> defaults, isDefault |-> TRUE]
  ELSE IF f.kind = "locked" THEN [kb |-> defaults, isDefault |-> TRUE]
  ELSE LET r == json_load(f.data) IN
       IF r.ok /\ r.v.t = "list" THEN [kb |-> r.v.a, isDefault |-> FALSE]
       ELSE [kb |-> defaults, isDefault |-> TRUE]

\* load_kb(): [kb, isDefault]; kb is the list returned and isDefault tells
\* whether it is the list object DEFAULT_KB itself.  defaults is the
\* current content of DEFAULT_KB.
load_kb(f, defaults) ==
  IF f.kind = "absent" THEN [kb |-> defaults, isDefault |-> FALSE]   \* .copy()
  ELSE IF f.kind = "locked" THEN [kb |-> defaults, isDefault |-> FALSE]  \* open raises
  ELSE LET r == json_load(f.data) IN
       IF r.ok /\ r.v.t = "list" THEN [kb |-> r.v.a, isDefault |-> FALSE]
       ELSE [kb |-> defaults, isDefault |-> FALSE]

\* the outcomes of save_kb(kb) on the file f: "ok", or the exception of
\* open, or an exception of a write after open has truncated the file
save_outcomes(f) ==
  IF f.kind = "locked" THEN {"open failed"} ELSE {"ok", "write failed"}

\* the file after save_kb(kb) with the given outcome; cut is the number of
\* characters that reached the file before a failed write
save_kb(kb, f, outcome, cut) ==
  CASE outcome = "open failed" -> f
    [] outcome = "write failed" ->
         [kind |-> "regular", data |-> SubSeq(json_dump(kb), 1, cut)]
    [] outcome = "ok" -> [kind |-> "regular", data |-> json_dump(kb)]

-----------------------------------------------------------------------------
(* handle_message *)

\* msg before the first message
NoMessage == <<"no message">>
\* tasks while messages are handled one after another
NoTasks == [t \in 1..MaxTasks |-> [pc |-> "none"]]
\* call before and outside the direct calls
NoCall == [fn |-> "none"]
\* result outside the query path
NoResult == [exc |-> "not called"]

\* user_text without the strip
user_text_no_strip(m) == m

\* user_text, cmd and arg of a message
user_text(m) == strip(m)

command(m) == lower(split_once(user_text(m), " ")[1])

argument(m) ==
  LET r == split_once(user_text(m), " ")
  IN  IF Len(r) > 1 THEN strip(r[2]) ELSE <<>>

\* a dispatcher that takes a command name without its slash for a command
IsCommand_optional_slash(m) ==
  /\ user_text(m) # <<>>
  /\ \/ startswith(user_text(m), <<"/">>)
     \/ startswith(lower(user_text(m)), <<"a","d","d">>)

IsCommand(m) == user_text(m) # <<>> /\ startswith(user_text(m), <<"/">>)

IsCmd(m, name) == IsCommand(m) /\ command(m) = name

CmdHelp == <<"/","h","e","l","p">>
CmdList == <<"/","l","i","s","t">>
CmdAdd == <<"/","a","d","d">>
CmdSave == <<"/","s","a","v","e">>
CmdLoad == <<"/","l","o","a","d">>

\* the parts of the argument of /add, each stripped
add_parts(m) ==
  LET ps == split(argument(m), "|") IN [i \in 1..Len(ps) |-> strip(ps[i])]

\* the stripped items of ts from index i on, without the empty ones
RECURSIVE stripped_nonempty(_, _)
stripped_nonempty(ts, i) ==
  IF i > Len(ts) THEN <<>>
  ELSE (IF strip(ts[i]) # <<>> THEN <<strip(ts[i])>> ELSE <<>>)
         \o stripped_nonempty(ts, i + 1)

\* the tags of /add: the third part split at ",", stripped, empty ones dropped
add_tags(parts) ==
  IF Len(parts) >= 3 /\ parts[3] # <<>>
  THEN stripped_nonempty(split(parts[3], ","), 1)
  ELSE <<>>

\* str(x) as an f-string formats it, for the strings and numbers of the model
py_str(x) ==
  CASE x.t = "str" -> x.s
    [] x.t = "num" -> encode_int(x.n)

\* the exception /list raises on an item, "none" if it formats it
list_error(item) ==
  IF item.t # "dict" THEN "AttributeError"          \* item.get
  ELSE IF /\ dict_has(item, K_tags)
          /\ \/ dict_get(item, K_tags).t = "num"      \* join of a non-iterable
             \/ \E i \in 1..Len(tag_items(dict_get(item, K_tags))) :
                   tag_items(dict_get(item, K_tags))[i].t # "str"
       THEN "TypeError"
  ELSE IF ~dict_has(item, K_question) THEN "KeyError"
  ELSE "none"

\* the line of /list numbered from 0 (enumerate(KB) without its start)
list_line_from_zero(i, item) ==
  LET ts == IF dict_has(item, K_tags) THEN tag_items(dict_get(item, K_tags))
            ELSE <<>>
  IN  encode_int(i - 1) \o <<".", " ">> \o py_str(dict_get(item, K_question))
        \o <<" ", "(", "t", "a", "g", "s", ":", " ">>
        \o join([j \in 1..Len(ts) |-> ts[j].s], <<",", " ">>)
        \o <<")">>

\* the line of /list for the i-th item: "i. question (tags: t1, t2)"
list_line(i, item) ==
  LET ts == IF dict_has(item, K_tags) THEN tag_items(dict_get(item, K_tags))
            ELSE <<>>
  IN  encode_int(i) \o <<".", " ">> \o py_str(dict_get(item, K_question))
        \o <<" ", "(", "t", "a", "g", "s", ":", " ">>
        \o join([j \in 1..Len(ts) |-> ts[j].s], <<",", " ">>)
        \o <<")">>

\* the end of a run of the handler: the message, what it sent, how it ended
Finish(m, out, exc) ==
  /\ msg' = m
  /\ sent' = out
  /\ raised' = exc

\* the history of the latest /save after an /add that appended n entries
saved_after_add(n) ==
  IF saved # <<>> /\ ~saved[1].loaded
  THEN <<[saved[1] EXCEPT !.adds = @ + n]>>
  ELSE <<>>

\* the history of the latest /save after a /load
saved_after_load ==
  IF saved # <<>> /\ ~saved[1].loaded
  THEN <<[saved[1] EXCEPT !.loaded = TRUE]>>
  ELSE <<>>

\* "(empty message)"
HandleEmpty(m) ==
  /\ user_text(m) = <<>>
  /\ Finish(m, <<[kind |-> "empty"]>>, "none")
  /\ saved' = <<>>
  /\ UNCHANGED <<KB, DEFAULT_KB, kbIsDefault, file, added>>

\* /help: the help text
HandleHelp(m) ==
  /\ IsCmd(m, CmdHelp)
  /\ Finish(m, <<[kind |-> "help"]>>, "none")
  /\ saved' = <<>>
  /\ UNCHANGED <<KB, DEFAULT_KB, kbIsDefault, file, added>>

\* /list: "Knowledge base is empty." or one line an item
HandleList(m) ==
  /\ IsCmd(m, CmdList)
  /\ LET bad == {i \in 1..Len(KB) : list_error(KB[i]) # "none"} IN
     IF KB = <<>> THEN Finish(m, <<[kind |-> "list empty"]>>, "none")
     ELSE IF bad # {}
     THEN Finish(m, <<>>, list_error(KB[CHOOSE i \in bad : \A j \in bad : i <= j]))
     \* "\n".join(lines)
     ELSE Finish(m, <<[kind |-> "list",
                       text |-> join([i \in 1..Len(KB) |-> list_line(i, KB[i])],
                                     <<"\n">>)]>>,
                 "none")
  /\ saved' = <<>>
  /\ UNCHANGED <<KB, DEFAULT_KB, kbIsDefault, file, added>>

\* /add that appends what it was given before it checks the parts
HandleAddRejected_append_first(m) ==
  /\ IsCmd(m, CmdAdd)
  /\ argument(m) = <<>> \/ Len(add_parts(m)) < 2
  /\ KB' = Append(KB, Entry(argument(m), <<>>, <<>>))
  /\ Finish(m, <<[kind |-> IF argument(m) = <<>> THEN "usage" ELSE "need two parts"]>>,
            "none")
  /\ saved' = saved_after_add(0)
  /\ UNCHANGED <<DEFAULT_KB, kbIsDefault, file, added>>

\* /add without an argument: "Usage: /add Question|Answer|tag1,tag2";
\* with fewer than two parts: "Please provide at least Question and Answer
\* separated by '|'."
HandleAddRejected(m) ==
  /\ IsCmd(m, CmdAdd)
  /\ argument(m) = <<>> \/ Len(add_parts(m)) < 2
  /\ Finish(m, <<[kind |-> IF argument(m) = <<>> THEN "usage" ELSE "need two parts"]>>,
            "none")
  /\ saved' = saved_after_add(0)
  /\ UNCHANGED <<KB, DEFAULT_KB, kbIsDefault, file, added>>

\* /add that also writes the store to kb.json
HandleAdd_autosave(m) ==
  /\ IsCmd(m, CmdAdd)
  /\ argument(m) # <<>>
  /\ Len(add_parts(m)) >= 2
  /\ added < MaxAdd
  /\ \E parts \in {add_parts(m)} :
       \E e \in {Entry(parts[1], parts[2], add_tags(parts))} :
         /\ KB' = Append(KB, e)
         /\ DEFAULT_KB' = IF kbIsDefault THEN Append(DEFAULT_KB, e) ELSE DEFAULT_KB
         /\ file' = [kind |-> "regular", data |-> json_dump(Append(KB, e))]
  /\ added' = added + 1
  /\ Finish(m, <<[kind |-> "added"]>>, "none")
  /\ saved' = saved_after_add(1)
  /\ UNCHANGED kbIsDefault

\* /add that puts the entry first (KB.insert(0, ...))
HandleAdd_insert_first(m) ==
  /\ IsCmd(m, CmdAdd)
  /\ argument(m) # <<>>
  /\ Len(add_parts(m)) >= 2
  /\ added < MaxAdd
  /\ \E parts \in {add_parts(m)} :
       \E e \in {Entry(parts[1], parts[2], add_tags(parts))} :
         /\ KB' = <<e>> \o KB
         /\ DEFAULT_KB' = IF kbIsDefault THEN <<e>> \o DEFAULT_KB ELSE DEFAULT_KB
  /\ added' = added + 1
  /\ Finish(m, <<[kind |-> "added"]>>, "none")
  /\ saved' = saved_after_add(1)
  /\ UNCHANGED <<kbIsDefault, file>>

\* /add Q|A|tags: KB.append(...), "Added to knowledge base."
HandleAdd(m) ==
  /\ IsCmd(m, CmdAdd)
  /\ argument(m) # <<>>
  /\ Len(add_parts(m)) >= 2
  /\ added < MaxAdd
  /\ \E parts \in {add_parts(m)} :
       \E e \in {Entry(parts[1], parts[2], add_tags(parts))} :
         /\ KB' = Append(KB, e)
         \* KB.append changes the list object, under each of its names
         /\ DEFAULT_KB' = IF kbIsDefault THEN Append(DEFAULT_KB, e) ELSE DEFAULT_KB
  /\ added' = added + 1
  /\ Finish(m, <<[kind |-> "added"]>>, "none")
  /\ saved' = saved_after_add(1)
  /\ UNCHANGED <<kbIsDefault, file>>

\* /save: "Saved KB to kb.json." or "Failed to save KB: <exception>"
HandleSave(m) ==
  /\ IsCmd(m, CmdSave)
  /\ \E outcome \in save_outcomes(file) :
       \E cut \in 0..MaxCut :
         /\ outcome # "write failed" => cut = 0
         /\ \E after \in {save_kb(KB, file, outcome, cut)} :
              /\ outcome = "write failed" => Len(after.data) = cut
              /\ file' = after
         /\ IF outcome = "ok"
            THEN /\ Finish(m, <<[kind |-> "saved"]>>, "none")
                 /\ saved' = <<[kb |-> KB, adds |-> 0, loaded |-> FALSE]>>
            ELSE /\ Finish(m, <<[kind |-> "save failed", cause |-> outcome]>>, "none")
                 /\ saved' = <<>>
  /\ UNCHANGED <<KB, DEFAULT_KB, kbIsDefault, added>>

\* /load without "global KB": the assignment binds a local name
HandleLoad_local_KB(m) ==
  /\ IsCmd(m, CmdLoad)
  /\ Finish(m, <<[kind |-> "loaded"]>>, "none")
  /\ saved' = saved_after_load
  /\ UNCHANGED <<KB, DEFAULT_KB, kbIsDefault, file, added>>

\* /load: KB = load_kb(), "Knowledge base loaded."
HandleLoad(m) ==
  /\ IsCmd(m, CmdLoad)
  /\ \E r \in {load_kb(file, DEFAULT_KB)} :
       /\ KB' = r.kb
       /\ kbIsDefault' = r.isDefault
  /\ Finish(m, <<[kind |-> "loaded"]>>, "none")
  /\ saved' = saved_after_load
  /\ UNCHANGED <<DEFAULT_KB, file, added>>

\* any other command: "Unknown command. Type /help for available commands."
HandleUnknown(m) ==
  /\ IsCommand(m)
  /\ command(m) \notin {CmdHelp, CmdList, CmdAdd, CmdSave, CmdLoad}
  /\ Finish(m, <<[kind |-> "unknown"]>>, "none")
  /\ saved' = <<>>
  /\ UNCHANGED <<KB, DEFAULT_KB, kbIsDefault, file, added>>

\* 0.6, the score below which the match is disclosed
ANNOTATE_BELOW == Frac(6, 10)

\* f"{score:.2f}" as a number of hundredths: the nearest one, the even one
\* of two equally near
hundredths(x) ==
  LET lo == (100 * x.n) \div x.d
      twice == 2 * (100 * x.n - lo * x.d)
  IN  IF twice < x.d THEN lo
      ELSE IF twice > x.d THEN lo + 1
      ELSE IF lo % 2 = 0 THEN lo ELSE lo + 1

\* the query path annotating every score below 0.6 (without "score and")
HandleQuery_no_zero_test(m) ==
  /\ user_text(m) # <<>>
  /\ ~IsCommand(m)
  /\ \E r \in {find_best_answer(KB, user_text(m))} :
     /\ result' = r
     /\ IF r.exc # "none" THEN Finish(m, <<>>, r.exc)
        ELSE IF r.item # 0
        THEN Finish(m,
               <<[kind |-> "answer",
                  answer |-> dict_get(KB[r.item], K_answer).s,
                  annotated |-> FracLess(r.score, ANNOTATE_BELOW),
                  question |-> dict_get(KB[r.item], K_question).s,
                  score |-> r.score,
                  shown |-> hundredths(r.score)]>>,
               "none")
        ELSE Finish(m, <<[kind |-> "no answer"]>>, "none")
  /\ saved' = <<>>
  /\ UNCHANGED <<KB, DEFAULT_KB, kbIsDefault, file, added>>

\* a normal query: the answer found, or "I don't have a good answer"
HandleQuery(m) ==
  /\ user_text(m) # <<>>
  /\ ~IsCommand(m)
  /\ \E r \in {find_best_answer(KB, user_text(m))} :
     /\ result' = r
     /\ IF r.exc # "none" THEN Finish(m, <<>>, r.exc)
        ELSE IF r.item # 0
        THEN Finish(m,
               <<[kind |-> "answer",
                  answer |-> dict_get(KB[r.item], K_answer).s,
                  \* if score and score < 0.6
                  annotated |-> r.score.n # 0 /\ FracLess(r.score, ANNOTATE_BELOW),
                  question |-> dict_get(KB[r.item], K_question).s,
                  score |-> r.score,
                  \* score={score:.2f}
                  shown |-> hundredths(r.score)]>>,
               "none")
        ELSE Finish(m, <<[kind |-> "no answer"]>>, "none")
  /\ saved' = <<>>
  /\ UNCHANGED <<KB, DEFAULT_KB, kbIsDefault, file, added>>

\* one run of handle_message on the message m
handle_message(m) ==
  \/ HandleEmpty(m) /\ result' = NoResult
  \/ HandleHelp(m) /\ result' = NoResult
  \/ HandleList(m) /\ result' = NoResult
  \/ HandleAddRejected(m) /\ result' = NoResult
  \/ HandleAdd(m) /\ result' = NoResult
  \/ HandleSave(m) /\ result' = NoResult
  \/ HandleLoad(m) /\ result' = NoResult
  \/ HandleUnknown(m) /\ result' = NoResult
  \/ HandleQuery(m)

-----------------------------------------------------------------------------
(* The messages and the files of the model *)

MsgEmpty == <<>>

MsgBlank == <<" "," ">>

MsgHelp == <<"/","H","e","l","p">>

MsgList == <<" ","/","l","i","s","t">>

MsgSave == <<"/","s","a","v","e">>

MsgLoad == <<"/","L","O","A","D"," ","n","o","w">>

MsgUnknown == <<"/","d","r","o","p">>

MsgAddNoArg == <<"/","a","d","d"," "," ">>

MsgAddOnePart == <<"/","a","d","d"," ","O","n","l","y","O","n","e","P","a",
                   "r","t">>

MsgAddNoQuestion == <<"/","a","d","d"," ","|","x">>

MsgAddNoAnswer == <<"/","a","d","d"," ","F","o","o","|">>

MsgAddSpaced == <<"/","a","d","d"," "," ","s","a","y"," ","\"","h","i","\"",
                  " ","|"," ","a","\\","b"," ","|"," ","t","1"," ",","," ",
                  ",","t","2"," ","|","m","o","r","e">>

MsgQuery == <<"a","d","d"," ","F","o","o","|","x">>

Messages ==
  {MsgEmpty, MsgBlank, MsgHelp, MsgList, MsgSave, MsgLoad, MsgUnknown,
   MsgAddNoArg, MsgAddOnePart, MsgAddNoQuestion, MsgAddNoAnswer,
   MsgAddSpaced, MsgQuery}

\* kb.json before the program starts
FileAbsent == [kind |-> "absent", data |-> <<>>]
FileLocked == [kind |-> "locked", data |-> <<>>]
FileText(s) == [kind |-> "regular", data |-> s]

\* a one-entry store written without indentation
FILE_ONE == <<"[","{","\"","q","u","e","s","t","i","o","n","\"",":","\"",
              "q","1","\"",",","\"","a","n","s","w","e","r","\"",":","\"",
              "a","1","\"",",","\"","t","a","g","s","\"",":","[","\"","t",
              "\"","]","}","]">>

\* an entry without its answer
FILE_NO_ANSWER == <<" ","["," ","{","\"","q","u","e","s","t","i","o","n",
                    "\""," ",":"," ","\"","q","1","\"","}"," ","]","\n">>

InitialFiles ==
  {FileAbsent, FileLocked,
   FileText(<<"{", "}">>),
   FileText(<<"[", "]">>),
   FileText(<<"[", "1", "]">>),
   FileText(FILE_ONE),
   FileText(FILE_NO_ANSWER)}

-----------------------------------------------------------------------------
(* The program: KB = load_kb() at import, then one message after another *)

Init ==
  /\ file \in InitialFiles
  /\ DEFAULT_KB = DefaultKb
  /\ KB = load_kb(file, DefaultKb).kb
  /\ kbIsDefault = load_kb(file, DefaultKb).isDefault
  /\ msg = NoMessage
  /\ sent = <<>>
  /\ raised = "none"
  /\ result = NoResult
  /\ added = 0
  /\ saved = <<>>
  /\ tasks = NoTasks
  /\ call = NoCall

Next == \E m \in Messages : handle_message(m) /\ UNCHANGED <<tasks, call>>

Spec == Init /\ [][Next]_vars

-----------------------------------------------------------------------------
(* Persistence and the commands *)

\* the latest run of the handler returned after sending one message of this kind
Sent(kind) == raised = "none" /\ Len(sent) = 1 /\ sent[1].kind = kind

\* kb.json is missing, unreadable, malformed, or holds something else than an array
FileUnusable(f) ==
  \/ f.kind # "regular"
  \/ ~json_load(f.data).ok
  \/ json_load(f.data).v.t # "list"

\* the store holds an entry whose text json.dump has to escape
HasEscapedText(kb) ==
  \E i \in 1..Len(kb) :
     /\ kb[i].t = "dict"
     /\ dict_has(kb[i], K_question)
     /\ dict_get(kb[i], K_question).t = "str"
     /\ \E j \in 1..Len(dict_get(kb[i], K_question).s) :
           dict_get(kb[i], K_question).s[j] = "\""

(* C1: a successful /save followed at once by /load leaves the store exactly *)
(* as it was when it was saved: same entries, same order, same fields.       *)
C1_SaveLoadRoundTrip ==
  (Sent("loaded") /\ saved # <<>> /\ saved[1].loaded /\ saved[1].adds = 0)
     => KB = saved[1].kb

\* a /load right after the /save of a store with an added entry that needs escaping
C1_Witness ==
  /\ Sent("loaded") /\ saved # <<>> /\ saved[1].loaded /\ saved[1].adds = 0
  /\ added > 0 /\ HasEscapedText(saved[1].kb)
  /\ file.data = json_dump(KB)

(* C2: after a successful /save, any number of /add commands and then /load, *)
(* the store is the store of that save; no entry added since remains.        *)
C2_LoadDiscardsUnsaved ==
  (Sent("loaded") /\ saved # <<>> /\ saved[1].loaded)
     => /\ KB = saved[1].kb
        /\ Len(KB) = Len(saved[1].kb)

\* a /load after a /save and at least one entry added since
C2_Witness ==
  /\ Sent("loaded") /\ saved # <<>> /\ saved[1].loaded
  /\ saved[1].adds >= 1

(* C3: when /save fails, kb.json and the store are what they were before the *)
(* command, and the answer names the cause of the failure.                   *)
C3_SaveFailureHarmless ==
  [][(IsCmd(msg', CmdSave) /\ Len(sent') = 1 /\ sent'[1].kind = "save failed")
       => /\ file' = file
          /\ KB' = KB
          /\ sent'[1].cause \in {"open failed", "write failed"}]_vars

(* C4: every message is answered; none ends the handler with an exception,   *)
(* whatever array kb.json held when the store was loaded.                    *)
C4_NothingFatal ==
  msg # NoMessage => (raised = "none" /\ Len(sent) = 1)

(* C5: an entry appended by /add has a non-empty question and a non-empty    *)
(* answer.                                                                   *)
C5_AddedEntryNonEmpty ==
  Sent("added")
     => /\ dict_get(KB[Len(KB)], K_question).s # <<>>
        /\ dict_get(KB[Len(KB)], K_answer).s # <<>>

\* the argument of /add is missing or has fewer than two parts
AddMalformed(m) ==
  /\ IsCmd(m, CmdAdd)
  /\ \/ argument(m) = <<>>
     \/ \A i \in 1..Len(argument(m)) : argument(m)[i] # "|"

(* C6: /add without an argument or with fewer than two '|'-separated parts   *)
(* leaves the store as it is and answers with the usage or the two-parts     *)
(* message.                                                                  *)
C6_MalformedAddRejected ==
  [][AddMalformed(msg')
       => /\ KB' = KB
          /\ DEFAULT_KB' = DEFAULT_KB
          /\ raised' = "none"
          /\ Len(sent') = 1
          /\ sent'[1].kind \in {"usage", "need two parts"}]_vars

\* a malformed /add was answered while the store held an added entry
C6_Witness ==
  /\ AddMalformed(msg)
  /\ Sent("need two parts")
  /\ added > 0

(* C7: /load with kb.json missing, unreadable, malformed or not an array     *)
(* sets the store to the eight default entries, without any added entry.     *)
C7_LoadFallsBackToDefaults ==
  (Sent("loaded") /\ FileUnusable(file))
     => /\ KB = DefaultKb
        /\ Len(KB) = 8

\* the fallback was taken after entries had been added to a store of defaults
C7_Witness ==
  /\ Sent("loaded") /\ FileUnusable(file)
  /\ added > 0
  /\ Len(DEFAULT_KB) >= 8

-----------------------------------------------------------------------------
(* The matcher on small stores: queries against every store of at most     *)
(* MaxStore entries drawn from a pool, as /add or kb.json can build them.   *)

\* the question holds the letter "a" inside a word only
MatchEntryInside == Entry(<<"c","a","c","c","c">>, <<"y">>, <<>>)
\* the question holds the word "a"
MatchEntryWord == Entry(<<"a"," ","c","c","c">>, <<"y">>, <<>>)
\* a tag equal to the query "ab"
MatchEntryTag == Entry(<<"z","z">>, <<"y">>, <<<<"z">>, <<"A","b">>>>)
\* the query "ab" as the only tag, under another question
MatchEntryTagOnly == Entry(<<"y","y">>, <<"y">>, <<<<"a","b">>>>)
\* an answer equal to the query "ab"
MatchEntryAnswer == Entry(<<"z","z">>, <<"a","b">>, <<>>)
\* a question a little like the query "ab", with no word of it inside
MatchEntryFar == Entry(<<"b"," "," ","z","z","z","z">>, <<"y">>, <<>>)

MatchPool ==
  {MatchEntryInside, MatchEntryWord, MatchEntryTag, MatchEntryTagOnly,
   MatchEntryAnswer, MatchEntryFar}

MatchStores ==
  UNION {[1..n -> MatchPool] : n \in 0..MaxStore}

MatchQueries ==
  {<<"a">>, <<"a","b">>, <<" ","A","B"," ">>, <<"q">>, <<"a"," ","q">>,
   <<"z","q","q">>}

InitMatch ==
  /\ KB \in MatchStores
  /\ DEFAULT_KB = DefaultKb
  /\ kbIsDefault = FALSE
  /\ file = FileAbsent
  /\ msg = NoMessage
  /\ sent = <<>>
  /\ raised = "none"
  /\ result = NoResult
  /\ added = 0
  /\ saved = <<>>
  /\ tasks = NoTasks
  /\ call = NoCall

NextMatch == \E m \in MatchQueries : HandleQuery(m) /\ UNCHANGED <<tasks, call>>

SpecMatch == InitMatch /\ [][NextMatch]_vars

\* find_best_answer was called by the latest run and returned
Queried == result.exc = "none"

\* the normalized query of the latest run
QueryN == normalize(user_text(msg))

\* the normalized question of the i-th entry
QuestionN(i) == normalize(dict_get(KB[i], K_question).s)

\* the greatest of the scores in S, 0.0 when S is empty
GreatestOf(S) ==
  IF S = {} THEN Frac(0, 1)
  ELSE CHOOSE x \in S : \A y \in S : ~FracLess(x, y)

\* combined score of the i-th entry: max(1.2*s_q, 0.9*s_a, 1.0*s_t)
CombinedAt(i) ==
  LET tags == dict_get(KB[i], K_tags).a
  IN GreatestOf(
       {FracMul(WEIGHT_Q, score_match(QueryN, dict_get(KB[i], K_question).s)),
        FracMul(WEIGHT_A, score_match(QueryN, dict_get(KB[i], K_answer).s)),
        GreatestOf({score_match(QueryN, tags[t].s) : t \in 1..Len(tags)})})

\* the i-th entry attains the greatest combined score over the store
IsBest(i) == \A j \in 1..Len(KB) : ~FracLess(CombinedAt(i), CombinedAt(j))

\* some entry's combined score reaches 0.45
ReachesThreshold ==
  \E i \in 1..Len(KB) : ~FracLess(CombinedAt(i), MATCH_THRESHOLD)

\* the query and the i-th question share a whitespace-delimited token
SharesToken(i) ==
  \E w \in 1..Len(split_ws(QueryN)) :
     \E k \in 1..Len(split_ws(QuestionN(i))) :
        split_ws(QueryN)[w] = split_ws(QuestionN(i))[k]

\* some token of the query occurs in the i-th normalized question
ContainsToken(i) ==
  \E w \in 1..Len(split_ws(QueryN)) : contains(QuestionN(i), split_ws(QueryN)[w])

\* the least member of a non-empty set of indices
First(S) == CHOOSE i \in S : \A j \in S : i <= j

(* C8: when the greatest combined score over the store is at least 0.45,    *)
(* find_best_answer returns the earliest entry that attains it, and that    *)
(* score.                                                                    *)
C8_ThresholdMatch ==
  (Queried /\ ReachesThreshold)
     => /\ result.item = First({i \in 1..Len(KB) : IsBest(i)})
        /\ FracEq(result.score, CombinedAt(result.item))

\* two entries attain the greatest score, which reaches the threshold
C8_Witness ==
  /\ Queried /\ ReachesThreshold
  /\ \E i, j \in 1..Len(KB) : i < j /\ IsBest(i) /\ IsBest(j) /\ KB[i] # KB[j]

(* C9, as claimed: below the threshold, when the query shares a token with  *)
(* some question, the first entry sharing a token is returned, with 0.0.    *)
C9_FallbackFirstSharedToken ==
  (Queried /\ ~ReachesThreshold /\ \E i \in 1..Len(KB) : SharesToken(i))
     => /\ result.item = First({i \in 1..Len(KB) : SharesToken(i)})
        /\ result.score.n = 0

(* C9, amended: below the threshold, when a token of the query occurs       *)
(* anywhere in some normalized question, the first entry whose normalized   *)
(* question contains a token of the query is returned, with score 0.0.      *)
C9_FallbackFirstContaining ==
  (Queried /\ ~ReachesThreshold /\ \E i \in 1..Len(KB) : ContainsToken(i))
     => /\ result.item = First({i \in 1..Len(KB) : ContainsToken(i)})
        /\ result.score.n = 0

\* the fallback returned an entry that holds a token of the query inside a
\* word, ahead of an entry that shares the token
C9_Witness ==
  /\ Queried /\ ~ReachesThreshold
  /\ result.item # 0
  /\ ~SharesToken(result.item)
  /\ \E j \in 1..Len(KB) : j > result.item /\ SharesToken(j)

(* C10, as claimed: below the threshold, when the query shares no token     *)
(* with any question, no entry is returned, with the best combined score,   *)
(* which is below 0.45.                                                      *)
C10_NoMatchWithoutSharedToken ==
  (Queried /\ ~ReachesThreshold /\ \A i \in 1..Len(KB) : ~SharesToken(i))
     => /\ result.item = 0
        /\ FracEq(result.score, GreatestOf({CombinedAt(i) : i \in 1..Len(KB)}))
        /\ FracLess(result.score, MATCH_THRESHOLD)

(* C10, amended: below the threshold, when no token of the query occurs in  *)
(* any normalized question, no entry is returned, with the best combined    *)
(* score, which is below 0.45.                                               *)
C10_NoMatchWithoutContainedToken ==
  (Queried /\ ~ReachesThreshold /\ \A i \in 1..Len(KB) : ~ContainsToken(i))
     => /\ result.item = 0
        /\ FracEq(result.score, GreatestOf({CombinedAt(i) : i \in 1..Len(KB)}))
        /\ FracLess(result.score, MATCH_THRESHOLD)

\* nothing was returned although an entry scored above 0.0
C10_Witness ==
  /\ Queried /\ ~ReachesThreshold
  /\ \A i \in 1..Len(KB) : ~ContainsToken(i)
  /\ result.item = 0
  /\ result.score.n > 0

-----------------------------------------------------------------------------
(* The answer to a query *)

\* h is a hundredth nearest to the score x
NearestHundredth(x, h) ==
  LET diff == 100 * x.n - h * x.d
  IN  2 * diff <= x.d /\ -2 * diff <= x.d

(* C11, as claimed: an answer that shows an entry carries the line with the *)
(* matched question and the score exactly when the score is below 0.6, the  *)
(* keyword fallback (score 0.0) included.                                    *)
C11_AnnotatedBelowSixTenths ==
  Sent("answer")
     => (sent[1].annotated <=> FracLess(sent[1].score, ANNOTATE_BELOW))

(* C11, amended: an answer that shows an entry carries the line with the    *)
(* matched question and the score rounded to two decimals exactly when the  *)
(* score is not zero and below 0.6; the answer of the keyword fallback      *)
(* (score 0.0) carries no such line.                                         *)
C11_AnnotatedWhenNonZeroBelowSixTenths ==
  Sent("answer")
     => /\ sent[1].annotated
             <=> (sent[1].score.n # 0 /\ FracLess(sent[1].score, ANNOTATE_BELOW))
        /\ sent[1].score = result.score
        /\ sent[1].question = dict_get(KB[result.item], K_question).s
        /\ NearestHundredth(result.score, sent[1].shown)
        /\ result.score.n = 0 => ~sent[1].annotated

\* an answer of the keyword fallback was sent, without the line
C11_Witness ==
  /\ Sent("answer")
  /\ result.score.n = 0
  /\ ~sent[1].annotated
  /\ \E i \in 1..Len(KB) : ContainsToken(i)

-----------------------------------------------------------------------------
(* Concurrent delivery.  handle_message is a coroutine: the transport may   *)
(* start a run for each message it has, and a run gives way to another run  *)
(* only at an await.  Every branch of the handler does its work on KB and   *)
(* kb.json first and awaits once, at the end, to send its message.          *)

\* the messages that use the store: /list, /add, /save, /load and a query
TaskMessages == {MsgList, MsgAddNoAnswer, MsgSave, MsgLoad, MsgQuery}

\* kb.json and KB when the first message is delivered
TaskFile == FileText(FILE_ONE)
TaskKb == load_kb(TaskFile, DefaultKb).kb

\* the transport delivers m: run t of the handler is created.  The runs are
\* numbered in the order of their creation.
Deliver(t, m) ==
  /\ tasks[t].pc = "none"
  /\ t > 1 => tasks[t - 1].pc # "none"
  /\ tasks' = [tasks EXCEPT ![t] = [pc |-> "delivered", m |-> m]]
  /\ UNCHANGED <<KB, DEFAULT_KB, kbIsDefault, file, msg, sent, raised, result,
                 added, saved, call>>

\* the code of the branches of the handler that use the store, up to the await
store_branch(m) ==
  \/ HandleList(m) /\ result' = NoResult
  \/ HandleAdd(m) /\ result' = NoResult
  \/ HandleSave(m) /\ result' = NoResult
  \/ HandleLoad(m) /\ result' = NoResult
  \/ HandleQuery(m)

\* a handler whose /add reads KB, awaits, and then binds KB to the list it
\* read with the entry appended: another run can come in between
TaskRun_add_across_await(t) ==
  \/ /\ tasks[t].pc = "delivered"
     /\ IsCmd(tasks[t].m, CmdAdd)
     /\ tasks' = [tasks EXCEPT ![t] = [pc |-> "read", m |-> tasks[t].m, kb |-> KB]]
     /\ UNCHANGED <<KB, DEFAULT_KB, kbIsDefault, file, msg, sent, raised, result,
                    added, saved, call>>
  \/ /\ tasks[t].pc = "read"
     /\ added < MaxAdd
     /\ \E parts \in {add_parts(tasks[t].m)} :
          KB' = Append(tasks[t].kb, Entry(parts[1], parts[2], add_tags(parts)))
     /\ added' = added + 1
     /\ Finish(tasks[t].m, <<[kind |-> "added"]>>, "none")
     /\ tasks' = [tasks EXCEPT ![t] = [pc |-> "sending", m |-> tasks[t].m,
                                       out |-> <<[kind |-> "added"]>>]]
     /\ UNCHANGED <<DEFAULT_KB, kbIsDefault, file, result, saved, call>>
  \/ /\ tasks[t].pc = "delivered"
     /\ ~IsCmd(tasks[t].m, CmdAdd)
     /\ store_branch(tasks[t].m)
     /\ tasks' = [tasks EXCEPT ![t] = [pc |-> "sending", m |-> tasks[t].m,
                                       out |-> sent']]
     /\ UNCHANGED call

\* run t executes from the start of the handler to its await: no other run
\* executes in between.  A run that raises ends there.
TaskRun(t) ==
  /\ tasks[t].pc = "delivered"
  /\ store_branch(tasks[t].m)
  /\ tasks' = [tasks EXCEPT ![t] = [pc |-> IF raised' = "none" THEN "sending"
                                           ELSE "done",
                                    m |-> tasks[t].m, out |-> sent']]
  /\ UNCHANGED call

\* the await of run t ends: its message is sent and the handler returns
TaskSend(t) ==
  /\ tasks[t].pc = "sending"
  /\ tasks' = [tasks EXCEPT ![t] = [pc |-> "done", m |-> tasks[t].m,
                                    out |-> tasks[t].out]]
  /\ UNCHANGED <<KB, DEFAULT_KB, kbIsDefault, file, msg, sent, raised, result,
                 added, saved, call>>

InitTasks ==
  /\ file = TaskFile
  /\ DEFAULT_KB = DefaultKb
  /\ KB = TaskKb
  /\ kbIsDefault = FALSE
  /\ msg = NoMessage
  /\ sent = <<>>
  /\ raised = "none"
  /\ result = NoResult
  /\ added = 0
  /\ saved = <<>>
  /\ tasks = NoTasks
  /\ call = NoCall

NextTasks ==
  \E t \in 1..MaxTasks :
     \/ \E m \in TaskMessages : Deliver(t, m)
     \/ TaskRun(t)
     \/ TaskSend(t)

SpecTasks == InitTasks /\ [][NextTasks]_vars

\* the runs that have done their work on the store
Ran == {t \in 1..MaxTasks : tasks[t].pc \in {"sending", "done"}}

\* the store and the file after the store operation of m alone, from s
OneAtATime(m, s) ==
  IF IsCmd(m, CmdAdd)
  THEN {[kb |-> Append(s.kb, Entry(add_parts(m)[1], add_parts(m)[2],
                                   add_tags(add_parts(m)))),
         file |-> s.file]}
  ELSE IF IsCmd(m, CmdLoad)
  THEN {[kb |-> load_kb(s.file, DefaultKb).kb, file |-> s.file]}
  ELSE IF IsCmd(m, CmdSave)
  THEN {[kb |-> s.kb, file |-> save_kb(s.kb, s.file, o, c)] :
          o \in save_outcomes(s.file), c \in 0..MaxCut}
  ELSE {s}

\* the stores and files after the operations of the runs order[i..] one at
\* a time, from one of S
RECURSIVE InOrder(_, _, _)
InOrder(order, i, S) ==
  IF i > Len(order) THEN S
  ELSE InOrder(order, i + 1,
               UNION {OneAtATime(tasks[order[i]].m, s) : s \in S})

\* the orders of the runs in R
Orders(R) ==
  {o \in [1..Cardinality(R) -> R] :
     \A i, j \in 1..Cardinality(R) : i # j => o[i] # o[j]}

(* C12: with messages delivered concurrently, the store (and kb.json) are   *)
(* always what the store operations of the runs made so far give when they  *)
(* are applied one at a time in some order.                                  *)
C12_StoreAccessSerialized ==
  \E o \in Orders(Ran) :
     [kb |-> KB, file |-> file]
        \in InOrder(o, 1, {[kb |-> TaskKb, file |-> TaskFile]})

\* two runs overlap: one has appended and awaits its send, another has
\* appended after it
C12_Witness ==
  /\ \E t, u \in Ran : t # u /\ tasks[t].pc = "sending"
        /\ IsCmd(tasks[t].m, CmdAdd) /\ IsCmd(tasks[u].m, CmdAdd)
  /\ Len(KB) = Len(TaskKb) + 2

-----------------------------------------------------------------------------
(* Dispatch and the frame of each message *)

\* the first character of m that is not whitespace is not "/"
StartsWithoutSlash(m) ==
  \E i \in 1..Len(m) :
     /\ ~IsSpace(m[i]) /\ m[i] # "/"
     /\ \A j \in 1..(i - 1) : IsSpace(m[j])

\* every character of m is whitespace
IsBlank(m) == \A i \in 1..Len(m) : IsSpace(m[i])

(* C13, as claimed: a message whose first character is not "/" takes the    *)
(* query path and changes neither the store nor the file.                    *)
C13_NoSlashFirstIsQuery ==
  [][(Len(msg') > 0 /\ msg'[1] # "/")
       => /\ result' # NoResult
          /\ KB' = KB
          /\ file' = file]_vars

(* C13, amended: a message that is not blank and whose first character      *)
(* after the leading whitespace is not "/" takes the query path and changes *)
(* neither the store nor the file, even if it holds "|" or a command name.  *)
C13_NoSlashAfterTrimIsQuery ==
  [][StartsWithoutSlash(msg')
       => /\ result' # NoResult
          /\ KB' = KB
          /\ DEFAULT_KB' = DEFAULT_KB
          /\ file' = file]_vars

\* a message with a command name and "|" in it went the query path
C13_Witness ==
  /\ StartsWithoutSlash(msg)
  /\ startswith(lower(msg), <<"a","d","d">>)
  /\ \E i \in 1..Len(msg) : msg[i] = "|"
  /\ result # NoResult

(* C14: an empty or whitespace-only message is answered "(empty message)";  *)
(* the store and the file stay as they are and the matcher is not called.   *)
C14_BlankMessage ==
  [][IsBlank(msg')
       => /\ sent' = <<[kind |-> "empty"]>>
          /\ raised' = "none"
          /\ result' = NoResult
          /\ KB' = KB
          /\ DEFAULT_KB' = DEFAULT_KB
          /\ file' = file]_vars

\* a whitespace-only message was answered over a store no handler can read
\* without raising
C14_Witness ==
  /\ IsBlank(msg) /\ Len(msg) > 0
  /\ Sent("empty")
  /\ \E i \in 1..Len(KB) : KB[i].t # "dict"

\* the message is a command other than the five known ones
IsUnknownCommand(m) ==
  /\ IsCommand(m)
  /\ ~IsCmd(m, CmdHelp) /\ ~IsCmd(m, CmdList) /\ ~IsCmd(m, CmdAdd)
  /\ ~IsCmd(m, CmdSave) /\ ~IsCmd(m, CmdLoad)

(* C19: only a successful /add and /load change the store and only /save    *)
(* changes kb.json; /help, /list, unknown commands and queries change       *)
(* neither, and a successful /add leaves kb.json as it is.                   *)
C19_Frame ==
  [][/\ KB' # KB => \/ IsCmd(msg', CmdAdd) /\ Sent("added")'
                    \/ IsCmd(msg', CmdLoad)
     /\ file' # file => IsCmd(msg', CmdSave)
     /\ (\/ IsCmd(msg', CmdHelp) \/ IsCmd(msg', CmdList)
         \/ IsUnknownCommand(msg') \/ StartsWithoutSlash(msg'))
           => KB' = KB /\ file' = file
     /\ Sent("added")' => file' = file]_vars

\* an entry was added after a save and kb.json still holds the store saved
C19_Witness ==
  /\ Sent("added")
  /\ saved # <<>> /\ saved[1].adds >= 1
  /\ file.data = json_dump(saved[1].kb)
  /\ KB # saved[1].kb

\* s is the beginning of t
IsPrefix(s, t) == Len(s) <= Len(t) /\ SubSeq(t, 1, Len(s)) = s

(* C20: a message other than /load leaves the store as a prefix of the      *)
(* store after it: a successful /add puts one entry at the end, any other   *)
(* message leaves the store as it is.                                        *)
C20_AppendOnlyBetweenLoads ==
  [][~IsCmd(msg', CmdLoad)
       => /\ IsPrefix(KB, KB')
          /\ Sent("added")' => Len(KB') = Len(KB) + 1
          /\ ~Sent("added")' => KB' = KB]_vars

\* the second entry was added at the end of a store that was not empty
C20_Witness ==
  /\ Sent("added")
  /\ added = 2
  /\ Len(KB) >= 3

-----------------------------------------------------------------------------
(* /list and /add on small stores of entries *)

ListEntryTagged == Entry(<<"Q">>, <<"A">>, <<<<"t","1">>, <<"t","2">>>>)
ListEntryPlain == Entry(<<"q","?">>, <<"a">>, <<>>)
\* the entry of the message "/add a<newline>b|c"
ListEntryTwoLines == Entry(<<"a","\n","b">>, <<"c">>, <<>>)

ListPool == {ListEntryTagged, ListEntryPlain, ListEntryTwoLines}

ListStores == UNION {[1..n -> ListPool] : n \in 0..MaxStore}

MsgAddTagged == <<"/","a","d","d"," ","Q","|","A","|","t","1",",","t","2">>

MsgAddTwoLines == <<"/","a","d","d"," ","a","\n","b","|","c">>

ListMessages == {MsgList, MsgAddTagged, MsgAddTwoLines}

InitList ==
  /\ KB \in ListStores
  /\ DEFAULT_KB = DefaultKb
  /\ kbIsDefault = FALSE
  /\ file = FileAbsent
  /\ msg = NoMessage
  /\ sent = <<>>
  /\ raised = "none"
  /\ result = NoResult
  /\ added = 0
  /\ saved = <<>>
  /\ tasks = NoTasks
  /\ call = NoCall

NextList ==
  \E m \in ListMessages :
     \/ HandleList(m) /\ result' = NoResult /\ UNCHANGED <<tasks, call>>
     \/ HandleAdd(m) /\ result' = NoResult /\ UNCHANGED <<tasks, call>>

SpecList == InitList /\ [][NextList]_vars

\* 'k. <question> (tags: <tags joined by ", ">)' for the k-th entry
ExpectedLine(k) ==
  LET tags == dict_get(KB[k], K_tags).a
  IN  encode_int(k) \o <<".", " ">> \o dict_get(KB[k], K_question).s
        \o <<" ", "(", "t", "a", "g", "s", ":", " ">>
        \o join([j \in 1..Len(tags) |-> tags[j].s], <<",", " ">>)
        \o <<")">>

\* the question or a tag of the k-th entry holds a line break
HasLineBreak(k) ==
  \/ \E i \in 1..Len(dict_get(KB[k], K_question).s) :
        dict_get(KB[k], K_question).s[i] = "\n"
  \/ \E j \in 1..Len(dict_get(KB[k], K_tags).a) :
        \E i \in 1..Len(dict_get(KB[k], K_tags).a[j].s) :
           dict_get(KB[k], K_tags).a[j].s[i] = "\n"

\* "1. Q (tags: t1, t2)"
ListedTagged ==
  <<"1", ".", " ", "Q", " ", "(", "t", "a", "g", "s", ":", " ", "t", "1", ",",
    " ", "t", "2", ")">>

(* C15, as claimed: /list on a non-empty store answers with exactly one     *)
(* line an entry, in the order of the store, the k-th line being            *)
(* 'k. <question> (tags: <tags joined by ", ">)'.                            *)
C15_ListOneLinePerEntry ==
  Sent("list")
     => split(sent[1].text, "\n") = [k \in 1..Len(KB) |-> ExpectedLine(k)]

(* C15, amended: /list on a non-empty store answers with one item an entry, *)
(* in the order of the store, joined by line breaks, the k-th item being    *)
(* 'k. <question> (tags: <tags joined by ", ">)'; the items are exactly the *)
(* lines of the answer when no question and no tag holds a line break.      *)
(* '/add Q|A|t1,t2' on an empty store and then /list gives                  *)
(* '1. Q (tags: t1, t2)'.                                                    *)
C15_ListOneItemPerEntry ==
  Sent("list")
     => /\ sent[1].text = join([k \in 1..Len(KB) |-> ExpectedLine(k)], <<"\n">>)
        /\ (\A k \in 1..Len(KB) : ~HasLineBreak(k))
              => split(sent[1].text, "\n") = [k \in 1..Len(KB) |-> ExpectedLine(k)]
        /\ KB = <<ListEntryTagged>> => sent[1].text = ListedTagged

\* the entry of "/add a<newline>b|c" is listed on two lines
C15_TwoLinesListed ==
  /\ Sent("list")
  /\ added = 1 /\ KB = <<ListEntryTwoLines>>
  /\ Len(split(sent[1].text, "\n")) = 2

\* /list after '/add Q|A|t1,t2' on the empty store
C15_Witness ==
  /\ Sent("list")
  /\ added = 1 /\ Len(KB) = 1
  /\ sent[1].text = ListedTagged

-----------------------------------------------------------------------------
(* normalize and score_match called on short texts *)

\* the texts of at most n characters of the set chars
RECURSIVE TextsUpTo(_, _)
TextsUpTo(chars, n) ==
  IF n = 0 THEN {<<>>}
  ELSE LET shorter == TextsUpTo(chars, n - 1)
       IN  shorter \cup {Append(t, c) : t \in shorter, c \in chars}

NormalizeTexts == TextsUpTo({"a", "B", " ", "\t"}, MaxText)

ScoredTexts == TextsUpTo({"a", "B", " "}, MaxScored)

InitNormalize ==
  /\ call \in {[fn |-> "text", text |-> t] : t \in NormalizeTexts}
  /\ KB = <<>>
  /\ DEFAULT_KB = DefaultKb
  /\ kbIsDefault = FALSE
  /\ file = FileAbsent
  /\ msg = NoMessage
  /\ sent = <<>>
  /\ raised = "none"
  /\ result = NoResult
  /\ added = 0
  /\ saved = <<>>
  /\ tasks = NoTasks

\* normalize(text)
CallNormalize ==
  /\ call.fn = "text"
  /\ call' = [fn |-> "normalize", text |-> call.text,
              out |-> normalize(call.text)]
  /\ UNCHANGED <<KB, DEFAULT_KB, kbIsDefault, file, msg, sent, raised, result,
                 added, saved, tasks>>

\* normalize(normalize(text))
CallNormalizeAgain ==
  /\ call.fn = "normalize"
  /\ call' = [fn |-> "normalize twice", text |-> call.text, out |-> call.out,
              again |-> normalize(call.out)]
  /\ UNCHANGED <<KB, DEFAULT_KB, kbIsDefault, file, msg, sent, raised, result,
                 added, saved, tasks>>

NextNormalize == CallNormalize \/ CallNormalizeAgain

SpecNormalize == InitNormalize /\ [][NextNormalize]_vars

InitScore ==
  /\ call \in {[fn |-> "texts", a |-> s, b |-> t] :
                 s \in ScoredTexts, t \in ScoredTexts}
  /\ KB = <<>>
  /\ DEFAULT_KB = DefaultKb
  /\ kbIsDefault = FALSE
  /\ file = FileAbsent
  /\ msg = NoMessage
  /\ sent = <<>>
  /\ raised = "none"
  /\ result = NoResult
  /\ added = 0
  /\ saved = <<>>
  /\ tasks = NoTasks

\* score_match(a, b)
CallScoreMatch ==
  /\ call.fn = "texts"
  /\ call' = [fn |-> "score_match", a |-> call.a, b |-> call.b,
              out |-> score_match(call.a, call.b)]
  /\ UNCHANGED <<KB, DEFAULT_KB, kbIsDefault, file, msg, sent, raised, result,
                 added, saved, tasks>>

NextScore == CallScoreMatch

SpecScore == InitScore /\ [][NextScore]_vars

(* C16: on the empty store find_best_answer returns no entry and the score  *)
(* 0.0, whatever the query.                                                  *)
C16_EmptyStore ==
  (Queried /\ KB = <<>>)
     => /\ result.item = 0
        /\ result.score.n = 0
        /\ Sent("no answer")

\* a query was answered over the empty store
C16_Witness ==
  /\ Queried /\ KB = <<>>
  /\ Len(msg) > 1
  /\ result.item = 0

\* t is lower case, without whitespace at its ends, and its words are
\* separated by one space each
IsNormalized(t) ==
  /\ \A i \in 1..Len(t) : t[i] \notin UpperSet /\ (IsSpace(t[i]) => t[i] = " ")
  /\ t # <<>> => ~IsSpace(t[1]) /\ ~IsSpace(t[Len(t)])
  /\ \A i \in 1..(Len(t) - 1) : ~(IsSpace(t[i]) /\ IsSpace(t[i + 1]))

(* C17: normalize(normalize(s)) = normalize(s), and normalize(s) is lower   *)
(* case, stripped, with every run of whitespace collapsed to one space.     *)
C17_NormalizeIdempotent ==
  call.fn = "normalize twice"
     => /\ call.again = call.out
        /\ IsNormalized(call.out)

\* normalize was applied twice to a text it changes in all three ways
C17_Witness ==
  /\ call.fn = "normalize twice"
  /\ call.text = <<" ", "B", "\t", " ", "a">>
  /\ call.out = <<"b", " ", "a">>

(* C18: the similarity of two texts is at least 0 and at most 1, and it is  *)
(* 1.0 when the normalized texts are identical, both empty included.        *)
C18_SimilarityRange ==
  call.fn = "score_match"
     => /\ call.out.n >= 0 /\ call.out.d > 0
        /\ call.out.n <= call.out.d
        /\ normalize(call.a) = normalize(call.b) => call.out.n = call.out.d

\* two texts that are both empty once normalized scored 1.0
C18_Witness ==
  /\ call.fn = "score_match"
  /\ call.a = <<>> /\ call.b = <<" ">>
  /\ call.out.n = call.out.d

====
